---- MODULE Spec2Model ----
(***************************************************************************)
(* Model of mopidy_beetslocal/library.py (BeetsLocalLibraryProvider): the  *)
(* query sanitizer, the SQL predicate builder, exact search and the browse *)
(* hierarchy.  The provider keeps no state between calls except the handle *)
(* to the beets library, so the state is the catalog (lib) and the call    *)
(* the host made last together with what it got back (last).               *)
(*                                                                         *)
(* Python values: a string is a TLA+ string, a list is a sequence; PyStr   *)
(* and PyList tag them so that "" and [] stay distinct.  A dict is a       *)
(* function from its keys; a query is a dict or None.  An uncaught Python  *)
(* exception is the result [kind |-> "raise"].                             *)
(***************************************************************************)
EXTENDS Integers, Sequences, FiniteSets, TLC

VARIABLES lib, last

vars == <<lib, last>>

\* ------------------------------------------------------------------ bounds
MaxKeys == 2      \* keys in one query / one URI query string
MaxVals == 2      \* values in one list of a query

\* ------------------------------------------------------------ Python values
PyStr(s) == [kind |-> "str", s |-> s, xs |-> <<>>]
PyList(xs) == [kind |-> "list", s |-> "", xs |-> xs]

\* bool(v): the empty string and the empty list are false
Truthy(v) == IF v.kind = "list" THEN v.xs # <<>> ELSE v.s # ""

PyNone == [none |-> TRUE, d |-> <<>>]
Dict(d) == [none |-> FALSE, d |-> d]

\* bool(query): None and {} are false
QueryTruthy(q) == ~q.none /\ DOMAIN q.d # {}

Remove(d, k) == [x \in DOMAIN d \ {k} |-> d[x]]
Put(d, k, v) == [x \in DOMAIN d \cup {k} |-> IF x = k THEN v ELSE d[x]]

\* the orders in which a dict's keys can be visited
Orders(S) ==
    {o \in [1..Cardinality(S) -> S] : \A i, j \in 1..Cardinality(S) : i # j => o[i] # o[j]}

\* The characters of the modelled strings whose characters the code looks at
\* (date parsing, quote detection, iteration over a bare string).  Every
\* other modelled string holds no digit, dash or quote and is kept as one
\* opaque symbol.
Chars(s) ==
    CASE s = "" -> <<>>
      [] s = "2020" -> <<"2", "0", "2", "0">>
      [] s = "0999" -> <<"0", "9", "9", "9">>
      [] s = "0000" -> <<"0", "0", "0", "0">>
      [] s = "2020-05-03" -> <<"2", "0", "2", "0", "-", "0", "5", "-", "0", "3">>
      [] s = "2021-2-30" -> <<"2", "0", "2", "1", "-", "2", "-", "3", "0">>
      [] s = "a\"b" -> <<"a", "\"", "b">>
      [] s = "a'\"b" -> <<"a", "'", "\"", "b">>
      [] OTHER -> <<s>>

\* iterating a value: a list yields its entries, a string its characters
Iter(v) == IF v.kind = "list" THEN v.xs ELSE Chars(v.s)

\* ------------------------------------------------------------ _sanitize_year
Digits == <<"0", "1", "2", "3", "4", "5", "6", "7", "8", "9">>
IsDigit(c) == \E n \in 1..10 : Digits[n] = c
DigitVal(c) == (CHOOSE n \in 1..10 : Digits[n] = c) - 1
AllDigits(cs) == \A i \in 1..Len(cs) : IsDigit(cs[i])

RECURSIVE ToInt(_)
ToInt(cs) ==
    IF cs = <<>> THEN 0
    ELSE ToInt(SubSeq(cs, 1, Len(cs) - 1)) * 10 + DigitVal(cs[Len(cs)])

\* str(n) for n >= 0: decimal digits, no leading zero
RECURSIVE IntToStr(_)
IntToStr(n) ==
    IF n < 10 THEN Digits[n + 1] ELSE IntToStr(n \div 10) \o Digits[(n % 10) + 1]

IsLeap(y) == (y % 4 = 0 /\ y % 100 # 0) \/ y % 400 = 0
DaysInMonth(y, m) ==
    IF m = 2 THEN (IF IsLeap(y) THEN 29 ELSE 28)
    ELSE IF m \in {4, 6, 9, 11} THEN 30 ELSE 31

\* datetime.strptime(datestr, '%Y'): exactly four digits, year >= MINYEAR;
\* the set holds the year when the parse succeeds (ValueError = empty set)
StrptimeY(cs) ==
    IF Len(cs) = 4 /\ AllDigits(cs) /\ ToInt(cs) >= 1 THEN {ToInt(cs)} ELSE {}

\* datetime.strptime(datestr, '%Y-%m-%d'): four digits, a month of one or two
\* digits in 1..12, a day of one or two digits that exists in that month
StrptimeYMD(cs) ==
    {ToInt(SubSeq(cs, 1, 4)) : ml \in {m \in {1, 2} :
        \E dl \in {1, 2} :
            /\ Len(cs) = 6 + m + dl
            /\ AllDigits(SubSeq(cs, 1, 4))
            /\ cs[5] = "-"
            /\ AllDigits(SubSeq(cs, 6, 5 + m))
            /\ cs[6 + m] = "-"
            /\ AllDigits(SubSeq(cs, 7 + m, Len(cs)))
            /\ ToInt(SubSeq(cs, 1, 4)) >= 1
            /\ ToInt(SubSeq(cs, 6, 5 + m)) \in 1..12
            /\ ToInt(SubSeq(cs, 7 + m, Len(cs))) >= 1
            /\ ToInt(SubSeq(cs, 7 + m, Len(cs)))
                   <= DaysInMonth(ToInt(SubSeq(cs, 1, 4)), ToInt(SubSeq(cs, 6, 5 + m)))}}

\* _sanitize_year: the year as a string in a one-element sequence, or <<>>
\* for None
SanitizeYear(datestr) ==
    LET cs == Chars(datestr)
    IN IF StrptimeY(cs) # {} THEN <<IntToStr(CHOOSE y \in StrptimeY(cs) : TRUE)>>
       ELSE IF StrptimeYMD(cs) # {} THEN <<IntToStr(CHOOSE y \in StrptimeYMD(cs) : TRUE)>>
       ELSE <<>>

RECURSIVE YearsOf(_)
\* the inner loop of _sanitize_query over the entries of a date value
YearsOf(values) ==
    IF values = <<>> THEN <<>>
    ELSE SanitizeYear(Head(values)) \o YearsOf(Tail(values))

\* ----------------------------------------------------------- _sanitize_query
\* The loop over query.iteritems().  order: the keys still to visit; used:
\* the size the dict had when the iterator was made (a dict whose size has
\* changed makes the next step of the iterator raise RuntimeError).
RECURSIVE SanitizeLoop(_, _, _, _)
SanitizeLoop(d, order, used, years) ==
    IF Cardinality(DOMAIN d) # used
    THEN [kind |-> "raise", exc |-> "RuntimeError"]
    ELSE IF order = <<>>
    THEN [kind |-> "ok",
          q |-> Dict(IF "date" \in DOMAIN d
                     THEN Remove(Put(d, "original_year", PyList(years)), "date")
                     ELSE d)]
    ELSE LET key == Head(order)
             values == d[key]
             d1 == IF ~Truthy(values) THEN Remove(d, key) ELSE d
             d2 == IF values.kind # "list" THEN Put(d1, key, PyList(<<values.s>>)) ELSE d1
             ys == IF Truthy(values) /\ key = "date"
                   THEN years \o YearsOf(Iter(values)) ELSE years
         IN SanitizeLoop(d2, Tail(order), used, ys)

SanitizeQuery(query, order) ==
    IF ~QueryTruthy(query) THEN [kind |-> "ok", q |-> query]
    ELSE SanitizeLoop(query.d, order, Cardinality(DOMAIN query.d), <<>>)

\* ------------------------------------------------------------ the catalog
\* The beets library is the external store; the model holds the columns the
\* provider reads.  Every value is a string (SQLite compares a quoted literal
\* with an integer column by its text).  mood is a flexible attribute: not a
\* column of the items table, and absent (NoneVal) on an item that has none.
NoneVal == "<None>"

ItemCols == {"id", "title", "artist", "albumartist", "album", "album_id", "genre",
             "grouping", "composer", "mb_artistid", "mb_albumartistid",
             "original_year", "format", "samplerate", "path"}
AlbumCols == {"id", "album", "albumartist", "mb_albumartistid", "genre",
              "original_year", "comp"}
Cols(table) == IF table = "items" THEN ItemCols ELSE IF table = "albums" THEN AlbumCols ELSE {}

Album1 == [id |-> "1", album |-> "A1", albumartist |-> "X", mb_albumartistid |-> "mbX",
           genre |-> "Rock", original_year |-> "2020", comp |-> "0"]
Album2 == [id |-> "2", album |-> "A2", albumartist |-> "", mb_albumartistid |-> "",
           genre |-> "Pop", original_year |-> "0", comp |-> "1"]
Item1 == [id |-> "1", title |-> "Foo", artist |-> "X", albumartist |-> "X", album |-> "A1",
          album_id |-> "1", genre |-> "Rock", grouping |-> "Classical", composer |-> "C",
          mb_artistid |-> "mbX", mb_albumartistid |-> "mbX", original_year |-> "2020",
          format |-> "FLAC", samplerate |-> "44100", path |-> "/m/1", mood |-> "Happy"]
Item2 == [id |-> "2", title |-> "Bar", artist |-> "X", albumartist |-> "", album |-> "A2",
          album_id |-> "2", genre |-> "Pop", grouping |-> "Classical", composer |-> "",
          mb_artistid |-> "mbX", mb_albumartistid |-> "", original_year |-> "2020",
          format |-> "MP3", samplerate |-> "44100", path |-> "/m/2", mood |-> NoneVal]
Item3 == [id |-> "3", title |-> "Foo", artist |-> "Y", albumartist |-> "", album |-> "A2",
          album_id |-> "2", genre |-> "Rock", grouping |-> "", composer |-> "",
          mb_artistid |-> "", mb_albumartistid |-> "", original_year |-> "0",
          format |-> "MP3", samplerate |-> "48000", path |-> "/m/3", mood |-> NoneVal]

Catalogs ==
    {[items |-> <<>>, albums |-> <<>>],
     [items |-> <<Item1>>, albums |-> <<Album1>>],
     [items |-> <<Item1, Item2, Item3>>, albums |-> <<Album1, Album2>>]}

Map(s, F(_)) == [i \in 1..Len(s) |-> F(s[i])]

\* the rows of a DISTINCT select, in the order the store first meets them
RECURSIVE Distinct(_)
Distinct(s) ==
    IF s = <<>> THEN <<>>
    ELSE LET r == Distinct(SubSeq(s, 1, Len(s) - 1))
             x == s[Len(s)]
         IN IF \E i \in 1..Len(r) : r[i] = x THEN r ELSE Append(r, x)

\* ---------------------------------------------------------- _build_statement
HasChar(s, c) == \E i \in 1..Len(Chars(s)) : Chars(s)[i] = c

\* one " and <table>.<field> = <quote><value><quote> " piece of SQL text
Clause(table, field, value) ==
    [conj |-> "and", table |-> table, field |-> field, value |-> value,
     quote |-> IF HasChar(value, "\"") THEN "'" ELSE "\""]

BuildStatement_FirstOnly(query, query_key, table) ==
    IF query_key \in DOMAIN query /\ Iter(query[query_key]) # <<>>
    THEN <<Clause(table, query_key, Iter(query[query_key])[1])>>
    ELSE <<>>

BuildStatement(query, query_key, table) ==
    IF query_key \in DOMAIN query
    THEN Map(Iter(query[query_key]), LAMBDA v : Clause(table, query_key, v))
    ELSE <<>>

\* the statement pieces of "for key in query: statement += _build_statement"
RECURSIVE WhereOf(_, _, _)
WhereOf(query, order, table) ==
    IF order = <<>> THEN <<>>
    ELSE BuildStatement(query, Head(order), table) \o WhereOf(query, Tail(order), table)

\* ------------------------------------------------------------ _query_beets_db
\* tx.query raises on a column the tables of the statement do not have and
\* on a literal whose quote character occurs inside it
SqlFails(tables, where) ==
    \E i \in 1..Len(where) :
        \/ where[i].table \notin tables
        \/ where[i].field \notin Cols(where[i].table)
        \/ HasChar(where[i].value, where[i].quote)

\* a row of the statement's FROM: [items |-> row] , [albums |-> row] or both
RowMatches(row, where) ==
    \A i \in 1..Len(where) : row[where[i].table][where[i].field] = where[i].value

FromItems == Map(lib.items, LAMBDA r : [items |-> r])
FromAlbums == Map(lib.albums, LAMBDA r : [albums |-> r])

\* items join albums on items.album_id = albums.id
RECURSIVE JoinOf(_)
JoinOf(its) ==
    IF its = <<>> THEN <<>>
    ELSE Map(SelectSeq(lib.albums, LAMBDA a : a.id = Head(its).album_id),
             LAMBDA a : [items |-> Head(its), albums |-> a])
         \o JoinOf(Tail(its))

FromOf(tables) ==
    IF tables = {"items"} THEN FromItems
    ELSE IF tables = {"albums"} THEN FromAlbums
    ELSE JoinOf(lib.items)

\* _query_beets_db: one tx.query; whatever it raises is swallowed and the
\* result is then the empty list
QueryBeetsDb(tables, where) ==
    IF SqlFails(tables, where) THEN <<>>
    ELSE SelectSeq(FromOf(tables), LAMBDA row : RowMatches(row, where))

\* ------------------------------------------------------- beets query strings
\* lib.items / lib.albums with 'field:value' terms.  The matching is beets'
\* own; the model takes a term to match a row that has the field with that
\* value (an empty pattern matches every value of the field).
TermMatches(row, term) ==
    /\ term.field \in DOMAIN row
    /\ (term.value = "" \/ row[term.field] = term.value)

LibAlbums(terms) == SelectSeq(lib.albums, LAMBDA r : \A t \in terms : TermMatches(r, t))
LibItems(terms) == SelectSeq(lib.items, LAMBDA r : \A t \in terms : TermMatches(r, t))

\* ----------------------------------------------- iterating a dict it mutates
\* _find_albums and _find_tracks replace a key of the dict they iterate.  The
\* pop leaves the size one short; when the new key was already bound the size
\* stays short and the iterator's next step raises RuntimeError.  Otherwise
\* the new key lands in a hash slot that lies before or after the iterator's
\* position: ins = 0 is a slot the iterator has passed (the key is never
\* visited), ins = n > 0 a slot that is reached after n - 1 of the remaining
\* keys (or after all of them).
Min(a, b) == IF a < b THEN a ELSE b

InsertAt(rest, key, ins) ==
    IF ins = 0 THEN rest
    ELSE SubSeq(rest, 1, Min(ins - 1, Len(rest))) \o <<key>>
         \o SubSeq(rest, Min(ins - 1, Len(rest)) + 1, Len(rest))

Raise(exc) == [kind |-> "raise", exc |-> exc]

\* ---------------------------------------------------------------- _find_albums
AlbumKey_NoRemap(key) == key

\* the field an albums predicate is built on
AlbumKey(key) == IF key = "artist" THEN "albumartist" ELSE key

RECURSIVE FindAlbumsLoop(_, _, _, _, _)
FindAlbumsLoop(query, order, used, ins, statement) ==
    IF Cardinality(DOMAIN query) # used
    THEN [kind |-> "raise", exc |-> "RuntimeError", query |-> query, statement |-> statement]
    ELSE IF order = <<>>
    THEN [kind |-> "ok", query |-> query, statement |-> statement]
    ELSE LET key == AlbumKey(Head(order))
             q1 == IF Head(order) = "artist"
                   THEN Put(Remove(query, "artist"), key, query["artist"])
                   ELSE query
             fresh == Head(order) = "artist" /\ key \notin DOMAIN query
             rest == IF fresh THEN InsertAt(Tail(order), key, ins) ELSE Tail(order)
         IN FindAlbumsLoop(q1, rest, used, ins,
                           statement \o BuildStatement(q1, key, "albums"))

AlbumOf(row) ==
    [name |-> row.albums.album,
     artist |-> row.albums.albumartist,
     uri |-> "beetslocal:album:" \o row.albums.id \o ":"]

\* _find_albums: the loop, then one query and the mapping of its rows
FindAlbums(query, order, ins) ==
    LET loop == FindAlbumsLoop(query, order, Cardinality(DOMAIN query), ins, <<>>)
    IN loop @@
       [albums |-> IF loop.kind = "ok"
                   THEN Map(QueryBeetsDb({"albums"}, loop.statement), AlbumOf)
                   ELSE <<>>]

\* ---------------------------------------------------------------- _find_tracks
RECURSIVE FindTracksLoop(_, _, _, _, _)
FindTracksLoop(query, order, used, ins, statement) ==
    IF Cardinality(DOMAIN query) # used
    THEN [kind |-> "raise", exc |-> "RuntimeError", query |-> query, statement |-> statement]
    ELSE IF order = <<>>
    THEN [kind |-> "ok", query |-> query, statement |-> statement]
    ELSE LET key == Head(order)
             q1 == IF key = "track_name"
                   THEN Put(Remove(query, "track_name"), "title", query["track_name"])
                   ELSE query
             fresh == key = "track_name" /\ "title" \notin DOMAIN query
             rest == IF fresh THEN InsertAt(Tail(order), "title", ins) ELSE Tail(order)
         IN FindTracksLoop(q1, rest, used, ins,
                           statement \o BuildStatement(q1, key, "items"))

TrackOf(row) ==
    [name |-> row.items.title,
     artist |-> row.items.artist,
     album |-> row.items.album,
     uri |-> "beetslocal:track:" \o row.items.id \o ":"]

FindTracks(query, order, ins) ==
    LET loop == FindTracksLoop(query, order, Cardinality(DOMAIN query), ins, <<>>)
    IN loop @@
       [tracks |-> IF loop.kind = "ok"
                   THEN Map(QueryBeetsDb({"items"}, loop.statement), TrackOf)
                   ELSE <<>>]

\* ----------------------------------------------------------------- _find_exact
\* The album pass of _find_exact on a sanitized query that is a dict: skipped
\* (ran = FALSE) when track_name or composer is queried.
AlbumPass(query, order, ins) ==
    IF "track_name" \in DOMAIN query \/ "composer" \in DOMAIN query
    THEN [kind |-> "ok", ran |-> FALSE, query |-> query, statement |-> <<>>, albums |-> <<>>]
    ELSE FindAlbums(query, order, ins) @@ [ran |-> TRUE]

\* The rest of _find_exact: the track pass on the dict the album pass left,
\* and the SearchResult.  The result keeps the statements of both passes.
FindExact(a, order, ins) ==
    IF a.kind = "raise"
    THEN [kind |-> "raise", exc |-> a.exc, ran |-> a.ran, album_statement |-> a.statement]
    ELSE LET t == FindTracks(a.query, order, ins)
         IN IF t.kind = "raise"
            THEN [kind |-> "raise", exc |-> t.exc, ran |-> a.ran,
                  album_statement |-> a.statement]
            ELSE [kind |-> "ok", ran |-> a.ran,
                  album_statement |-> a.statement,
                  track_statement |-> t.statement,
                  uri |-> [scheme |-> "beetslocal", path |-> "find", query |-> t.query],
                  albums |-> a.albums,
                  tracks |-> t.tracks]

\* ------------------------------------------------------------------- browse
U(path, query) == [scheme |-> "beetslocal", path |-> path, query |-> query]
Node(type, uri, name) == [type |-> type, uri |-> uri, name |-> name]
Nodes(ns) == [kind |-> "ok", nodes |-> ns]

\* v[0] raises IndexError on an empty list
HasEmpty(d, ks) == \E k \in ks : d[k].xs = <<>>
FirstVals(d, ks) == [k \in ks |-> d[k].xs[1]]

FIRST_LEVEL ==
    <<<<"Grouping", "grouping">>, <<"Genre", "genre">>, <<"Mood", "mood">>,
      <<"Format", "format">>, <<"Sample Rate", "samplerate">>, <<"Year", "year">>,
      <<"Compilations", "compilations">>, <<"Added At", "added_at">>,
      <<"All Albums", "album">>>>

BrowseRoot ==
    Nodes(Map(FIRST_LEVEL, LAMBDA e : Node("directory", U(e[2], <<>>), e[1])))

\* the URI of a playable track
TrackUri(item) == [scheme |-> "beetslocal", path |-> "track:" \o item.id \o ":" \o item.path,
                   query |-> <<>>]

BrowseTrack(query) ==
    IF "album" \notin DOMAIN query.d THEN Raise("KeyError")
    ELSE IF query.d["album"].xs = <<>> THEN Raise("IndexError")
    ELSE Nodes(Map(LibItems({[field |-> "album_id", value |-> query.d["album"].xs[1]]}),
                   LAMBDA t : Node("track", TrackUri(t), t.title)))

AlbumNode_ToAlbum(album) == Node("album", U("album", [album |-> album.id]), album.album)

AlbumNode(album) == Node("album", U("track", [album |-> album.id]), album.album)

\* the field a browse_album term is built on
BeetsField(k) == IF k = "mb_artistid" THEN "mb_albumartistid" ELSE k

BrowseAlbum(query) ==
    IF ~QueryTruthy(query) THEN Nodes(Map(LibAlbums({}), AlbumNode))
    ELSE IF HasEmpty(query.d, DOMAIN query.d) THEN Raise("IndexError")
    ELSE Nodes(Map(LibAlbums({[field |-> BeetsField(k), value |-> query.d[k].xs[1]] :
                                 k \in DOMAIN query.d}),
                   AlbumNode))

OldUrlQuery_KeepAll(query) == FirstVals(query, DOMAIN query)

\* old_url_query of _browse_artist: the inherited keys but the two it rebinds
OldUrlQuery(query) == FirstVals(query, DOMAIN query \ {"mb_artistid", "albumartist"})

ArtistNode(old_url_query, row) ==
    Node("directory",
         U("album", IF Len(row[2]) > 0
                    THEN Put(old_url_query, "mb_artistid", row[2])
                    ELSE Put(old_url_query, "albumartist", row[1])),
         IF row[1] # "" THEN row[1] ELSE "No Artist")

BrowseArtist(query, order) ==
    IF query.none THEN Raise("TypeError")
    ELSE IF HasEmpty(query.d, DOMAIN query.d \ {"mb_artistid", "albumartist"})
    THEN Raise("IndexError")
    ELSE LET statement == WhereOf(query.d, order, "items")
             rows == Distinct(Map(QueryBeetsDb({"items", "albums"}, statement),
                                  LAMBDA r : <<r.albums.albumartist,
                                               r.albums.mb_albumartistid>>))
         IN Nodes(Map(rows, LAMBDA row : ArtistNode(OldUrlQuery(query.d), row)))

BrowseGenre(query, order) ==
    IF QueryTruthy(query) /\ HasEmpty(query.d, DOMAIN query.d) THEN Raise("IndexError")
    ELSE LET statement == IF QueryTruthy(query) THEN WhereOf(query.d, order, "items")
                          ELSE <<>>
             old_url_query == IF QueryTruthy(query) THEN FirstVals(query.d, DOMAIN query.d)
                              ELSE <<>>
             rows == Distinct(Map(QueryBeetsDb({"items"}, statement),
                                  LAMBDA r : r.items.genre))
         IN Nodes(Map(rows, LAMBDA g :
                Node("directory", U("artist", Put(old_url_query, "genre", g)),
                     IF g # "" THEN g ELSE "No Genre")))

BrowseGrouping ==
    Nodes(Map(Distinct(Map(QueryBeetsDb({"items"}, <<>>), LAMBDA r : r.items.grouping)),
              LAMBDA g : Node("directory", U("genre", [grouping |-> g]),
                              IF g # "" THEN g ELSE "No Grouping")))

BrowseCompilations ==
    Nodes(Map(LibAlbums({[field |-> "comp", value |-> "1"]}), AlbumNode))

\* _browse_field: one node per value of the field over the items sorted by
\* it, None skipped.  The order among the nodes is the store's collation;
\* the model keeps the order of first occurrence.
BrowseField(field) ==
    Nodes(Map(SelectSeq(Distinct(Map(LibItems({}), LAMBDA x : x[field])),
                        LAMBDA v : v # NoneVal),
              LAMBDA v : Node("directory", U("artist", (field :> v)), v)))

\* url_query of the 'All Artists' and 'All albums' nodes
AllNode(level, query, name) ==
    Node("directory", U(level, FirstVals(query, DOMAIN query)), name)

\* the levels that have a branch in the if/elif chain of browse
HandledLevels == {"root", "compilations", "format", "samplerate", "year", "mood",
                  "grouping", "genre", "artist", "album", "track"}

\* the branch of the chain that a level takes; "unknown" is the final else
Branch(level) == IF level \in HandledLevels THEN level ELSE "unknown"

\* browse(uri) from the sanitized query on; level is urisplit(uri).path
BrowseLevel(level, query, order) ==
    IF Branch(level) = "root" THEN BrowseRoot
    ELSE IF Branch(level) = "compilations" THEN BrowseCompilations
    ELSE IF Branch(level) = "format" THEN BrowseField("format")
    ELSE IF Branch(level) = "samplerate" THEN BrowseField("samplerate")
    ELSE IF Branch(level) = "year" THEN BrowseField("original_year")
    ELSE IF Branch(level) = "mood" THEN BrowseField("mood")
    ELSE IF Branch(level) = "grouping" THEN BrowseGrouping
    ELSE IF Branch(level) = "genre"
    THEN IF "grouping" \in DOMAIN query.d /\ HasEmpty(query.d, DOMAIN query.d)
         THEN Raise("IndexError")
         ELSE LET g == BrowseGenre(query, order)
              IN IF g.kind = "raise" THEN g
                 ELSE Nodes((IF "grouping" \in DOMAIN query.d
                             THEN <<AllNode("artist", query.d, "All Artists")>>
                             ELSE <<>>) \o g.nodes)
    ELSE IF Branch(level) = "artist"
    THEN IF HasEmpty(query.d, DOMAIN query.d) THEN Raise("IndexError")
         ELSE LET a == BrowseArtist(query, order)
              IN IF a.kind = "raise" THEN a
                 ELSE Nodes(<<AllNode("album", query.d, "All albums")>> \o a.nodes)
    ELSE IF Branch(level) = "album" THEN BrowseAlbum(query)
    ELSE IF Branch(level) = "track" THEN BrowseTrack(query)
    ELSE Nodes(<<>>)

\* browse(uri): dict(urisplit(uri).getquerylist()) binds each key to one
\* string; the scheme of the URI is not read
Browse(uri, o1, o2) ==
    LET s == SanitizeQuery(Dict([k \in DOMAIN uri.query |-> PyStr(uri.query[k])]), o1)
    IN IF s.kind = "raise" THEN s ELSE BrowseLevel(uri.path, s.q, o2)

\* ------------------------------------------------------------- get_distinct
NamesOf(r) == IF r.kind = "raise" THEN r
              ELSE [kind |-> "ok", names |-> {r.nodes[i].name : i \in 1..Len(r.nodes)}]

GetDistinctField(field, query, order) ==
    IF field = "artist" THEN NamesOf(BrowseArtist(query, order))
    ELSE IF field = "genre" THEN NamesOf(BrowseGenre(query, order))
    ELSE IF field = "album" THEN NamesOf(BrowseAlbum(query))
    ELSE [kind |-> "ok", names |-> {}]

GetDistinct(field, query, o1, o2) ==
    LET s == SanitizeQuery(query, o1)
    IN IF s.kind = "raise" THEN s ELSE GetDistinctField(field, s.q, o2)

\* ------------------------------------------------------------------- inputs
RECURSIVE SeqsUpTo(_, _)
SeqsUpTo(S, n) ==
    IF n = 0 THEN {<<>>}
    ELSE SeqsUpTo(S, n - 1) \cup {Append(s, x) : s \in SeqsUpTo(S, n - 1), x \in S}

KeySets(K) == {S \in SUBSET K : Cardinality(S) <= MaxKeys}

DateStrs == {"2020", "2020-05-03", "not-a-date", "0999", "2021-2-30"}

\* the strings a caller binds to a key
Pool(use, k) ==
    CASE use = "normalize" /\ k = "date" -> DateStrs
      [] use = "normalize" /\ k = "genre" -> {"Rock", ""}
      [] k = "date" -> {"2020", "not-a-date"}
      [] k = "track_name" -> {"Foo"}
      [] k = "title" -> {"Foo", "a\"b"}
      [] k = "artist" -> {"X", "Y"}
      [] k = "albumartist" -> {"X"}
      [] k = "composer" -> {"C"}
      [] k = "genre" -> {"Rock", "Pop"}
      [] k = "grouping" -> {"Classical"}
      [] k = "album" -> {"1"}
      [] k = "mb_artistid" -> {"mbX"}
      [] k = "mood" -> {"Happy"}
      [] OTHER -> {"X"}

\* the values of a key: normalize takes lists and bare strings, search and
\* get_distinct take lists, the predicate builder a canonical (non-empty)
\* list, and a parsed URI binds a key to a string
Values(use, k) ==
    CASE use = "normalize" ->
             {PyList(xs) : xs \in SeqsUpTo(Pool(use, k), MaxVals)}
                 \cup {PyStr(x) : x \in Pool(use, k)}
      [] use = "search" -> {PyList(xs) : xs \in SeqsUpTo(Pool(use, k), MaxVals)}
      [] use = "build" -> {PyList(xs) : xs \in SeqsUpTo(Pool(use, k), MaxVals) \ {<<>>}}
      [] OTHER -> Pool(use, k)

RECURSIVE DictsOver(_, _)
DictsOver(S, use) ==
    IF S = {} THEN {<<>>}
    ELSE LET k == CHOOSE x \in S : TRUE
         IN {Put(d, k, v) : d \in DictsOver(S \ {k}, use), v \in Values(use, k)}

DictsOf(K, use) == UNION {DictsOver(S, use) : S \in KeySets(K)}

NormKeys == {"date", "genre", "artist"}
NormQueries == {PyNone} \cup {Dict(d) : d \in DictsOf(NormKeys, "normalize")}

SearchKeys == {"track_name", "title", "artist", "albumartist", "composer", "genre", "date"}
SearchQueries == {PyNone} \cup {Dict(d) : d \in DictsOf(SearchKeys, "search")}

DistinctFields == {"artist", "genre", "album", "track"}
DistinctKeys == {"genre", "albumartist", "date"}
DistinctQueries == {PyNone} \cup {Dict(d) : d \in DictsOf(DistinctKeys, "search")}

BuildKeys == {"genre", "title"}
BuildQueries == DictsOf(BuildKeys, "build")

Schemes == {"beetslocal", "file"}
Paths == {"", "root", "grouping", "genre", "mood", "format", "samplerate", "year",
          "compilations", "added_at", "album", "artist", "track", "bogus"}
BrowseKeys == {"grouping", "genre", "album", "mb_artistid", "albumartist", "date", "mood"}
Uris == {[scheme |-> s, path |-> p, query |-> d] :
            s \in Schemes, p \in Paths, d \in DictsOf(BrowseKeys, "uri")}

Idle == [op |-> "idle"]

Init ==
    /\ lib \in Catalogs
    /\ last = Idle

\* a caller hands a query to _sanitize_query
Normalize ==
    /\ last.op = "idle"
    /\ \E q \in NormQueries : \E o \in Orders(DOMAIN q.d) :
           last' = [op |-> "normalize", query |-> q, ret |-> SanitizeQuery(q, o)]
    /\ UNCHANGED lib

\* the caller hands the query it got back to _sanitize_query again
NormalizeAgain ==
    /\ last.op = "normalize"
    /\ last.ret.kind = "ok"
    /\ \E o \in Orders(DOMAIN last.ret.q.d) :
           last' = [op |-> "normalize2", query |-> last.query, first |-> last.ret,
                    ret |-> SanitizeQuery(last.ret.q, o)]
    /\ UNCHANGED lib

\* a caller builds the predicates of one key of a canonical query
Build ==
    /\ last.op = "idle"
    /\ \E q \in BuildQueries, k \in BuildKeys, t \in {"items", "albums"} :
           last' = [op |-> "build", query |-> q, key |-> k, table |-> t,
                    ret |-> BuildStatement(q, k, t)]
    /\ UNCHANGED lib

\* search(query, exact=True)
SearchExact ==
    /\ last.op = "idle"
    /\ \E q \in SearchQueries : \E o \in Orders(DOMAIN q.d) :
         LET s == SanitizeQuery(q, o)
         IN IF s.kind = "raise"
            THEN last' = [op |-> "search", query |-> q, ret |-> s]
            ELSE IF s.q.none
            THEN last' = [op |-> "search", query |-> q, ret |-> Raise("TypeError")]
            ELSE \E o1 \in Orders(DOMAIN s.q.d), ins1 \in 0..MaxKeys :
                   LET a == AlbumPass(s.q.d, o1, ins1)
                   IN \E o2 \in Orders(DOMAIN a.query), ins2 \in 0..MaxKeys :
                        last' = [op |-> "search", query |-> q, sanitized |-> s.q,
                                 ret |-> FindExact(a, o2, ins2)]
    /\ UNCHANGED lib

\* what the host keeps of one browse call: the URI, the level the URI came
\* from (Host when the host supplied it), the number of browse calls made on
\* the way, the branch browse took and the result
Host == "<host>"

Browsed(uri, from, hops, o1, o2) ==
    [op |-> "browse", uri |-> uri, from |-> from, hops |-> hops,
     branch |-> Branch(uri.path), ret |-> Browse(uri, o1, o2)]

\* browse(uri)
BrowseUri ==
    /\ last.op = "idle"
    /\ \E uri \in Uris : \E o1 \in Orders(DOMAIN uri.query) :
         LET s == SanitizeQuery(Dict([k \in DOMAIN uri.query |-> PyStr(uri.query[k])]), o1)
         IN \E o2 \in Orders(IF s.kind = "ok" THEN DOMAIN s.q.d ELSE {}) :
              last' = Browsed(uri, Host, 1, o1, o2)
    /\ UNCHANGED lib

\* the host opens one of the nodes the last browse returned
Follow ==
    /\ last.op = "browse"
    /\ last.ret.kind = "ok"
    /\ \E i \in 1..Len(last.ret.nodes) :
         LET uri == last.ret.nodes[i].uri
         IN \E o1 \in Orders(DOMAIN uri.query) :
              LET s == SanitizeQuery(Dict([k \in DOMAIN uri.query |-> PyStr(uri.query[k])]), o1)
              IN \E o2 \in Orders(IF s.kind = "ok" THEN DOMAIN s.q.d ELSE {}) :
                   last' = Browsed(uri, last.uri.path, last.hops + 1, o1, o2)
    /\ UNCHANGED lib

\* get_distinct(field, query)
Distinguish ==
    /\ last.op = "idle"
    /\ \E f \in DistinctFields, q \in DistinctQueries : \E o1 \in Orders(DOMAIN q.d) :
         LET s == SanitizeQuery(q, o1)
         IN \E o2 \in Orders(IF s.kind = "ok" THEN DOMAIN s.q.d ELSE {}) :
              last' = [op |-> "get_distinct", field |-> f, query |-> q,
                       ret |-> GetDistinct(f, q, o1, o2)]
    /\ UNCHANGED lib

\* ------------------------------------------------------------------- dates
\* _build_date_string on the year, month and day columns of a row
BuildDateString(year, month, day) ==
    IF year = 0 THEN ""
    ELSE IntToStr(year) \o
         (IF month = 0 THEN ""
          ELSE "-" \o IntToStr(month) \o
               (IF day = 0 THEN "" ELSE "-" \o IntToStr(day)))

\* '%Y' and '%m', '%d' of a date: the number padded with zeros to the width
RECURSIVE ZeroPad(_, _)
ZeroPad(n, width) ==
    IF width = 0 THEN "" ELSE ZeroPad(n \div 10, width - 1) \o Digits[(n % 10) + 1]

\* datetime.datetime(year, month, day) accepts the triple (ValueError if not)
ValidDate(year, month, day) ==
    /\ year \in 1..9999
    /\ month \in 1..12
    /\ day \in 1..DaysInMonth(year, month)

\* _format_date on an item (a function from the keys it has to numbers).  The
\* local d is bound only when the year key is present and no KeyError is
\* caught, and `if d` reads it in every case; strftime refuses years before
\* 1900.
FormatDate(item, use_original_release_date) ==
    LET pre == IF use_original_release_date THEN "original_" ELSE ""
        yk == pre \o "year"
        mk == pre \o "month"
        dk == pre \o "day"
    IN IF yk \notin DOMAIN item \/ mk \notin DOMAIN item \/ dk \notin DOMAIN item
       THEN Raise("UnboundLocalError")
       ELSE IF ~ValidDate(item[yk], item[mk], item[dk]) \/ item[yk] < 1900
       THEN Raise("ValueError")
       ELSE [kind |-> "ok",
             date |-> ZeroPad(item[yk], 4) \o "-" \o ZeroPad(item[mk], 2)
                      \o "-" \o ZeroPad(item[dk], 2)]

DateValues == [year |-> {0, 1850, 2020}, month |-> {0, 4, 12}, day |-> {0, 3, 31}]
DateTriples == [year : DateValues.year, month : DateValues.month, day : DateValues.day]
\* the items: some of the date fields, all plain or all original_
DateItems ==
    UNION {{[k \in {pre \o f : f \in S} |-> t[CHOOSE f \in S : pre \o f = k]] :
               t \in DateTriples} :
           pre \in {"", "original_"}, S \in SUBSET {"year", "month", "day"}}

\* the date of a Track or Album mapped from a row of _find_tracks or _find_albums
RowDate ==
    /\ last.op = "idle"
    /\ \E y \in DateValues.year, m \in DateValues.month, d \in DateValues.day :
         last' = [op |-> "row_date", year |-> y, month |-> m, day |-> d,
                  ret |-> [kind |-> "ok", date |-> BuildDateString(y, m, d)]]
    /\ UNCHANGED lib

\* the date of a Track or Album mapped by _convert_item or _convert_album
ConvertDate ==
    /\ last.op = "idle"
    /\ \E item \in DateItems, use \in BOOLEAN :
         last' = [op |-> "convert_date", item |-> item, use_original_release_date |-> use,
                  ret |-> FormatDate(item, use)]
    /\ UNCHANGED lib

Next ==
    \/ Normalize
    \/ NormalizeAgain
    \/ Build
    \/ SearchExact
    \/ BrowseUri
    \/ Follow
    \/ Distinguish
    \/ RowDate
    \/ ConvertDate

Spec == Init /\ [][Next]_vars

\* ------------------------------------------------------------------- claims
Normalized == last.op = "normalize" /\ ~last.query.none /\ last.ret.kind = "ok"

\* C1: normalizing the result of a normalization returns that result again
C1_NormalizeIdempotent ==
    last.op = "normalize2" => last.ret = last.first

\* C2: after normalization of a non-nil query every key that remains maps to
\* a non-empty sequence and no date key is present
C2_NormalizedValuesNonEmpty ==
    Normalized =>
        /\ "date" \notin DOMAIN last.ret.q.d
        /\ \A k \in DOMAIN last.ret.q.d :
               last.ret.q.d[k].kind = "list" /\ last.ret.q.d[k].xs # <<>>

\* the entries of a date value: those of a list, or the bare value itself
Entries(v) == IF v.kind = "list" THEN v.xs ELSE <<v.s>>

\* the key the years go to: `year` in the words of the claim, original_year
\* in the code; the claim is read as met by either
YearKeys == {"year", "original_year"}

\* C3: a date key is rewritten to a year key that holds the years of the
\* entries that parse, in input order; if no entry parses no year key is added
C3_DateRewrittenToYear ==
    (Normalized /\ "date" \in DOMAIN last.query.d) =>
        LET years == YearsOf(Entries(last.query.d["date"]))
            d == last.ret.q.d
        IN /\ "date" \notin DOMAIN d
           /\ IF years = <<>> THEN YearKeys \cap DOMAIN d = {}
              ELSE \E k \in YearKeys : k \in DOMAIN d /\ d[k] = PyList(years)

ExactSearched == last.op = "search" /\ "sanitized" \in DOMAIN last

\* C4: an exact search with a track_name or composer field skips the album
\* pass and returns no album, and for {track_name: [v]} every returned track
\* has the title v
C4_TrackNameSkipsAlbums ==
    (ExactSearched /\ {"track_name", "composer"} \cap DOMAIN last.sanitized.d # {}) =>
        /\ ~last.ret.ran
        /\ last.ret.kind = "ok" => last.ret.albums = <<>>
        /\ (DOMAIN last.sanitized.d = {"track_name"}
              /\ Len(last.sanitized.d["track_name"].xs) = 1) =>
                 /\ last.ret.kind = "ok"
                 /\ \A i \in 1..Len(last.ret.tracks) :
                        last.ret.tracks[i].name = last.sanitized.d["track_name"].xs[1]

\* the genres of the items that carry every inherited attribute (a query on
\* something that is no column of items fails and yields no row)
ScopedGenres(inherited) ==
    IF DOMAIN inherited \subseteq ItemCols
    THEN {lib.items[i].genre : i \in {j \in 1..Len(lib.items) :
              \A k \in DOMAIN inherited : lib.items[j][k] = inherited[k]}}
    ELSE {}

GenreNodesFrom(nodes, first, inherited) ==
    /\ Len(nodes) - first + 1 = Cardinality(ScopedGenres(inherited))
    /\ \A i \in first..Len(nodes) :
           /\ nodes[i].type = "directory"
           /\ nodes[i].uri.path = "artist"
           /\ "genre" \in DOMAIN nodes[i].uri.query
           /\ nodes[i].uri.query["genre"] \in ScopedGenres(inherited)
    /\ \A i, j \in first..Len(nodes) :
           i # j => nodes[i].uri.query["genre"] # nodes[j].uri.query["genre"]

\* C5: browsing genre with a grouping attribute returns an 'All Artists' node
\* first, addressed to the artist level with the inherited attributes, then
\* one node per distinct genre of the inherited scope; without grouping no
\* such node is emitted
C5_GenreAllArtistsFirst ==
    (last.op = "browse" /\ last.uri.path = "genre") =>
        IF "grouping" \in DOMAIN last.uri.query
        THEN /\ last.ret.kind = "ok"
             /\ Len(last.ret.nodes) >= 1
             /\ last.ret.nodes[1] = Node("directory", U("artist", last.uri.query), "All Artists")
             /\ GenreNodesFrom(last.ret.nodes, 2, last.uri.query)
        ELSE last.ret.kind = "ok" =>
                 \A i \in 1..Len(last.ret.nodes) : last.ret.nodes[i].name # "All Artists"

\* C6: browse of a URI outside the scheme, or without a level, returns the
\* empty sequence and does not raise
C6_ForeignUriNoMatch ==
    (last.op = "browse" /\ (last.uri.scheme # "beetslocal" \/ last.uri.path = "")) =>
        last.ret.kind = "ok" /\ last.ret.nodes = <<>>

\* C7: browse, search and get_distinct raise nothing to the caller; a failed
\* catalog query counts as zero rows
C7_NoFailureRaised ==
    /\ last.op \in {"browse", "search", "get_distinct"} => last.ret.kind = "ok"
    /\ (last.op = "browse" /\ last.uri.path = "genre" /\ last.ret.kind = "ok"
          /\ ~(DOMAIN last.uri.query \subseteq ItemCols)) =>
             \A i \in 1..Len(last.ret.nodes) : last.ret.nodes[i].name = "All Artists"

Rebound == {"mb_artistid", "albumartist"}

\* C8: every per-artist node of the artist level addresses the album level
\* with exactly one of mb_artistid (the row's id when it is not empty) and
\* albumartist (the row's name otherwise); the inherited bindings of those two
\* keys are gone and every other inherited key is carried
C8_ArtistNodeRebinds ==
    (last.op = "browse" /\ last.uri.path = "artist" /\ last.ret.kind = "ok") =>
        \A i \in 2..Len(last.ret.nodes) :
            LET u == last.ret.nodes[i].uri
                others == DOMAIN last.uri.query \ Rebound
            IN /\ u.path = "album"
               /\ Cardinality(DOMAIN u.query \cap Rebound) = 1
               /\ DOMAIN u.query \ Rebound = others
               /\ \A k \in others : u.query[k] = last.uri.query[k]
               /\ \E j \in 1..Len(lib.albums) :
                      IF lib.albums[j].mb_albumartistid # ""
                      THEN /\ "mb_artistid" \in DOMAIN u.query
                           /\ u.query["mb_artistid"] = lib.albums[j].mb_albumartistid
                      ELSE /\ "albumartist" \in DOMAIN u.query
                           /\ u.query["albumartist"] = lib.albums[j].albumartist

\* an artist browse that inherits mb_artistid and another key and emits a
\* node rebound to albumartist
C8_Witness ==
    /\ last.op = "browse" /\ last.uri.path = "artist" /\ last.ret.kind = "ok"
    /\ "mb_artistid" \in DOMAIN last.uri.query
    /\ DOMAIN last.uri.query \ Rebound # {}
    /\ \E i \in 2..Len(last.ret.nodes) : "albumartist" \in DOMAIN last.ret.nodes[i].uri.query

\* the rows of a table, as the rows of a FROM on that table alone
RowsOf(table) == IF table = "items" THEN FromItems ELSE FromAlbums

\* C9: a field of the query yields one AND-joined equality clause per value,
\* in order, on the scope table, so that two distinct values match no row; an
\* absent field yields no clause
C9_OneClausePerValue ==
    last.op = "build" =>
        IF last.key \in DOMAIN last.query
        THEN LET vals == last.query[last.key].xs
                 rows == RowsOf(last.table)
             IN /\ Len(last.ret) = Len(vals)
                /\ \A i \in 1..Len(vals) :
                       /\ last.ret[i].conj = "and"
                       /\ last.ret[i].table = last.table
                       /\ last.ret[i].field = last.key
                       /\ last.ret[i].value = vals[i]
                /\ \A r \in 1..Len(rows) :
                       last.key \in Cols(last.table) =>
                           (RowMatches(rows[r], last.ret)
                               <=> \A i \in 1..Len(vals) :
                                       rows[r][last.table][last.key] = vals[i])
                /\ (\E i, j \in 1..Len(vals) : vals[i] # vals[j]) =>
                       (SqlFails({last.table}, last.ret)
                           \/ \A r \in 1..Len(rows) : ~RowMatches(rows[r], last.ret))
        ELSE last.ret = <<>>

\* two distinct values of genre built against a catalog that has both
C9_Witness ==
    /\ last.op = "build" /\ last.key = "genre" /\ "genre" \in DOMAIN last.query
    /\ Len(lib.items) = 3
    /\ last.query["genre"].xs = <<"Rock", "Pop">>
    /\ Len(last.ret) = 2

\* C10: the predicates an exact search builds on the albums table for a query
\* with an artist field are on albumartist with the artist's values and never
\* on a column artist, whatever the other keys and the order of the visit
C10_AlbumArtistRemap ==
    (ExactSearched /\ last.ret.ran /\ "artist" \in DOMAIN last.sanitized.d) =>
        LET st == last.ret.album_statement
            vals == last.sanitized.d["artist"].xs
        IN /\ \A i \in 1..Len(st) : st[i].table = "albums" /\ st[i].field # "artist"
           /\ \E i \in 0..(Len(st) - Len(vals)) :
                  \A j \in 1..Len(vals) : st[i + j] = Clause("albums", "albumartist", vals[j])

\* an album pass that met another key before artist
C10_Witness ==
    /\ ExactSearched /\ last.ret.ran /\ last.ret.kind = "ok"
    /\ DOMAIN last.sanitized.d = {"artist", "genre"}
    /\ Len(last.sanitized.d["artist"].xs) = 2
    /\ last.ret.album_statement[1].field = "genre"
    /\ last.ret.album_statement[Len(last.ret.album_statement)].field = "albumartist"

\* the rank of a level in the order root < first-level categories (grouping
\* before genre) < artist < album < track; anything else (the URI of a track
\* leaf, no level, an unknown level) ranks after track
LevelRank(path) ==
    CASE path = "root" -> 0
      [] path = "grouping" -> 1
      [] path \in {"genre", "mood", "format", "samplerate", "year", "compilations",
                   "added_at"} -> 2
      [] path = "artist" -> 3
      [] path = "album" -> 4
      [] path = "track" -> 5
      [] OTHER -> 6

\* C11: every node browse emits at a level addresses a strictly later level,
\* so a chain of browse calls on emitted nodes never comes back to a level
\* and is over (nothing left to open) after a bounded number of calls
C11_BrowseStrictlyForward ==
    last.op = "browse" =>
        /\ LevelRank(last.uri.path) >= last.hops - 1
        /\ last.from # Host => LevelRank(last.from) < LevelRank(last.uri.path)
        /\ last.ret.kind = "ok" =>
               /\ \A i \in 1..Len(last.ret.nodes) :
                      LevelRank(last.ret.nodes[i].uri.path) > LevelRank(last.uri.path)
               /\ LevelRank(last.uri.path) = 6 => last.ret.nodes = <<>>

\* a chain from root down to a track leaf, whose URI opens nothing further
C11_Witness ==
    /\ last.op = "browse" /\ last.hops = 6 /\ last.from = "track"
    /\ last.ret.kind = "ok" /\ last.ret.nodes = <<>>

\* C13: when both passes of an exact search run, the track predicates are
\* built on the field names the sanitized query had on entry; an artist field
\* filters items.artist and not items.albumartist
C13_AlbumPassLeavesQuery ==
    (ExactSearched /\ last.ret.ran /\ last.ret.kind = "ok") =>
        LET st == last.ret.track_statement
            d == last.sanitized.d
        IN /\ \A i \in 1..Len(st) : st[i].table = "items" /\ st[i].field \in DOMAIN d
           /\ "artist" \in DOMAIN d =>
                  \A j \in 1..Len(d["artist"].xs) :
                      \E i \in 1..Len(st) : st[i] = Clause("items", "artist", d["artist"].xs[j])

\* C14: browsing a node that the root level emitted takes a branch of browse
\* for its level and never the unknown-level branch
C14_RootNodesHandled ==
    (last.op = "browse" /\ last.from = "root") => last.branch # "unknown"

\* the field of the triple a mapping reads, 0 when the item has no such field
DateField(item, key) == IF key \in DOMAIN item THEN item[key] ELSE 0

\* the partial dates of a triple: nothing without a year, the year alone,
\* with the month when there is one, with the day when there are both;
\* numbers written plainly or padded with zeros
PartialDates(year, month, day) ==
    IF year = 0 THEN {"", NoneVal}
    ELSE IF month = 0 THEN {IntToStr(year), ZeroPad(year, 4)}
    ELSE IF day = 0
    THEN {IntToStr(year) \o "-" \o IntToStr(month),
          ZeroPad(year, 4) \o "-" \o ZeroPad(month, 2)}
    ELSE {IntToStr(year) \o "-" \o IntToStr(month) \o "-" \o IntToStr(day),
          ZeroPad(year, 4) \o "-" \o ZeroPad(month, 2) \o "-" \o ZeroPad(day, 2)}

\* C12: the date of a mapped Track or Album is the partial date of its
\* (year, month, day) triple, and the mapping yields a value for every triple
C12_DateFromTriple ==
    /\ last.op = "row_date" =>
           /\ last.ret.kind = "ok"
           /\ last.ret.date \in PartialDates(last.year, last.month, last.day)
    /\ last.op = "convert_date" =>
           LET pre == IF last.use_original_release_date THEN "original_" ELSE ""
           IN /\ last.ret.kind = "ok"
              /\ last.ret.date \in PartialDates(DateField(last.item, pre \o "year"),
                                                DateField(last.item, pre \o "month"),
                                                DateField(last.item, pre \o "day"))

====
